---- MODULE Spec2Model ----
(***************************************************************************)
(* Minibatch stochastic gradient descent (package sgd): the driver SGD,    *)
(* the RandomBatch batcher and the seven steppers of stepper.go.           *)
(*                                                                         *)
(* float64 values are modelled exactly where that is possible: a value is  *)
(* a rational n/d in lowest terms, NaN, +Inf or -Inf, and the result of an *)
(* operation that has no rational value TLC's integers can hold            *)
(* (the square root of a non-square, a product that is too large) is kept  *)
(* as the expression that produced it.  Two expressions are equal when     *)
(* they were computed in the same way from the same values.  Rounding and  *)
(* the sign of zero are not modelled.                                      *)
(*                                                                         *)
(* The arithmetic and vector operators bind their arguments before they    *)
(* use them (x \in {x0}), so that an argument is evaluated once however    *)
(* often the body refers to it.                                            *)
(***************************************************************************)
EXTENDS Integers, Sequences, FiniteSets, TLC

(***************************************************************************)
(* float64                                                                 *)
(***************************************************************************)
IntLimit == 2^30

Abs(x) == IF x < 0 THEN -x ELSE x

RECURSIVE Gcd(_, _)
Gcd(a0, b0) ==
  CHOOSE val \in {
     IF b = 0 THEN a ELSE Gcd(b, a % b)
    : a \in {a0}, b \in {b0}} : TRUE

\* |a * b| stays below the largest integer TLC holds.
Fits(a, b) == a = 0 \/ b = 0 \/ Abs(a) <= IntLimit \div Abs(b)

R(n0, d0) ==
  CHOOSE val \in {
      LET g == Gcd(Abs(n), Abs(d))
          s == IF d < 0 THEN -1 ELSE 1
      IN  [k |-> "rat", n |-> s * (n \div g), d |-> s * (d \div g)]
    : n \in {n0}, d \in {d0}} : TRUE

NaN == [k |-> "nan", n |-> 0, d |-> 0]

Inf(sign) == [k |-> "inf", n |-> sign, d |-> 0]

Sym1(op, x) == [k |-> "sym", op |-> op, a |-> x]

Sym2(op, x, y) == [k |-> "sym", op |-> op, a |-> x, b |-> y]

Zero == R(0, 1)

One == R(1, 1)

IsRat(x) == x.k = "rat"

IsNaN(x) == x.k = "nan"

IsInf(x) == x.k = "inf"

IsZero(x) == IsRat(x) /\ x.n = 0

Sign(n) == IF n < 0 THEN -1 ELSE IF n > 0 THEN 1 ELSE 0

Neg(x0) ==
  CHOOSE val \in {
      CASE IsRat(x) -> R(-x.n, x.d)
        [] IsNaN(x) -> NaN
        [] IsInf(x) -> Inf(-x.n)
        [] OTHER    -> Sym1("neg", x)
    : x \in {x0}} : TRUE

Add(x0, y0) ==
  CHOOSE val \in {
      CASE IsNaN(x) \/ IsNaN(y) -> NaN
        [] IsInf(x) /\ IsInf(y) -> IF x.n = y.n THEN x ELSE NaN
        [] IsInf(x) -> x
        [] IsInf(y) -> y
        [] IsRat(x) /\ IsRat(y) ->
             LET g  == Gcd(x.d, y.d)
                 lx == y.d \div g
                 ly == x.d \div g
             IN  IF Fits(x.n, 2 * lx) /\ Fits(y.n, 2 * ly) /\ Fits(x.d, lx)
                   THEN R(x.n * lx + y.n * ly, x.d * lx)
                   ELSE Sym2("add", x, y)
        [] OTHER -> Sym2("add", x, y)
    : x \in {x0}, y \in {y0}} : TRUE

Sub(x, y) == Add(x, Neg(y))

Mul(x0, y0) ==
  CHOOSE val \in {
      CASE IsNaN(x) \/ IsNaN(y) -> NaN
        [] IsInf(x) /\ IsInf(y) -> Inf(x.n * y.n)
        [] IsInf(x) /\ IsRat(y) -> IF y.n = 0 THEN NaN ELSE Inf(x.n * Sign(y.n))
        [] IsRat(x) /\ IsInf(y) -> IF x.n = 0 THEN NaN ELSE Inf(y.n * Sign(x.n))
        [] IsRat(x) /\ IsRat(y) ->
             LET g1 == Gcd(Abs(x.n), y.d)
                 g2 == Gcd(Abs(y.n), x.d)
                 a  == x.n \div g1
                 b  == y.n \div g2
                 c  == x.d \div g2
                 e  == y.d \div g1
             IN  IF Fits(a, b) /\ Fits(c, e) THEN R(a * b, c * e)
                                             ELSE Sym2("mul", x, y)
        [] OTHER -> Sym2("mul", x, y)
    : x \in {x0}, y \in {y0}} : TRUE

Div(x0, y0) ==
  CHOOSE val \in {
      CASE IsNaN(x) \/ IsNaN(y) -> NaN
        [] IsInf(x) /\ IsInf(y) -> NaN
        [] IsInf(x) /\ IsRat(y) -> IF y.n < 0 THEN Inf(-x.n) ELSE x
        [] IsRat(x) /\ IsInf(y) -> Zero
        [] IsRat(x) /\ IsRat(y) ->
             IF y.n = 0
               THEN IF x.n = 0 THEN NaN ELSE Inf(Sign(x.n))
               ELSE Mul(x, R(y.d, y.n))
        [] OTHER -> Sym2("div", x, y)
    : x \in {x0}, y \in {y0}} : TRUE

RECURSIVE ISqrtBetween(_, _, _)
ISqrtBetween(n0, lo0, hi0) ==
  CHOOSE val \in {
      IF lo >= hi THEN lo
      ELSE LET mid == (lo + hi + 1) \div 2
           IN  IF mid * mid <= n THEN ISqrtBetween(n, mid, hi)
                                 ELSE ISqrtBetween(n, lo, mid - 1)
    : n \in {n0}, lo \in {lo0}, hi \in {hi0}} : TRUE

ISqrt(n) == ISqrtBetween(n, 0, 2^15)

IsSquare(n) == n <= IntLimit /\ (LET r == ISqrt(n) IN r * r = n)

\* math.Sqrt
Sqrt(x0) ==
  CHOOSE val \in {
      CASE IsNaN(x) -> NaN
        [] IsInf(x) -> IF x.n > 0 THEN x ELSE NaN
        [] IsRat(x) ->
             IF x.n < 0 THEN NaN
             ELSE IF IsSquare(x.n) /\ IsSquare(x.d) THEN R(ISqrt(x.n), ISqrt(x.d))
             ELSE Sym1("sqrt", x)
        [] OTHER -> Sym1("sqrt", x)
    : x \in {x0}} : TRUE

\* math.Pow(x, t) for t = 0, 1, 2, ... (the time counters of the steppers).
RECURSIVE Pow(_, _)
Pow(x0, t0) ==
  CHOOSE val \in {
     IF t = 0 THEN One ELSE Mul(Pow(x, t - 1), x)
    : x \in {x0}, t \in {t0}} : TRUE

Zeros(dim) == [i \in 1..dim |-> Zero]

(***************************************************************************)
(* Slices.  A []float64 is its backing array arr (Len(arr) is the          *)
(* capacity) and its length len; the elements are arr[1..len].  A nil      *)
(* slice has capacity 0.  Panic stands for the result of an operation that  *)
(* panics.                                                                 *)
(***************************************************************************)
nilSlice == [arr |-> << >>, len |-> 0]

Panic == [panic |-> TRUE]

IsPanic(x) == "panic" \in DOMAIN x

\* The elements of a slice.
Elems(x0) ==
  CHOOSE val \in {
     SubSeq(x.arr, 1, x.len)
    : x \in {x0}} : TRUE

\* x with its first Len(vals) elements overwritten (a loop over range vals,
\* or copy(x, vals) when vals is not longer than x).
WriteSlice(x0, vals0) ==
  CHOOSE val \in {
      [x EXCEPT !.arr = [i \in 1..Len(x.arr) |->
                           IF i <= Len(vals) THEN vals[i] ELSE x.arr[i]]]
    : x \in {x0}, vals \in {vals0}} : TRUE

\* copy(dst, src) on plain vectors: the first min(len) elements.
CopyVec(dst0, src0) ==
  CHOOSE val \in {
      [i \in 1..Len(dst) |-> IF i <= Len(src) THEN src[i] ELSE dst[i]]
    : dst \in {dst0}, src \in {src0}} : TRUE

\* floats.Scale(c, dst)
ScaleVec(c0, dst0) ==
  CHOOSE val \in {
     [i \in 1..Len(dst) |-> Mul(c, dst[i])]
    : c \in {c0}, dst \in {dst0}} : TRUE

\* floats.Add(dst, s); the lengths agree wherever it is called.
AddVec(dst0, s0) ==
  CHOOSE val \in {
     [i \in 1..Len(dst) |-> Add(dst[i], s[i])]
    : dst \in {dst0}, s \in {s0}} : TRUE

\* resizeZero without the zeroing loop, as the version in optimize is.
resizeNoZero(x, dim) ==
  IF dim > Len(x.arr) THEN [arr |-> Zeros(dim), len |-> dim]
  ELSE IF dim < 0 THEN Panic
  ELSE [x EXCEPT !.len = dim]

resizeZero(x, dim) ==
  IF dim > Len(x.arr) THEN [arr |-> Zeros(dim), len |-> dim]
  ELSE IF dim < 0 THEN Panic
  ELSE [arr |-> [i \in 1..Len(x.arr) |-> IF i <= dim THEN Zero ELSE x.arr[i]],
        len |-> dim]

\* OrDefault with the default never applied.
OrDefaultNever(x, def) == x

\* A hyperparameter left at its zero value takes its default.
OrDefault(x, def) == IF IsZero(x) THEN def ELSE x

(***************************************************************************)
(* The steppers.  XInit(a, dim) is the stepper a after a.Init(dim), or     *)
(* Panic; XStep(a, step, grad) is the stepper after a.Step(step, grad)     *)
(* and what the call leaves in the buffer step.  The loops run over the    *)
(* indices of grad, each index on its own.                                 *)
(***************************************************************************)
Idx(grad) == 1..Len(grad)

AnyPanic(S) == \E x \in S : IsPanic(x)

\* ---- Adadelta ----
AdadeltaInit(a, dim) ==
  LET s == resizeZero(a.s, dim)
      g == resizeZero(a.g, dim)
  IN  IF AnyPanic({s, g}) THEN Panic
      ELSE [a EXCEPT !.Smooth = OrDefault(a.Smooth, R(1, 100000000)),
                     !.Momen = OrDefault(a.Momen, R(9, 10)),
                     !.s = s, !.g = g]

AdadeltaStep(a, step, grad) ==
  LET g  == [i \in Idx(grad) |->
               Add(Mul(Mul(Sub(One, a.Momen), grad[i]), grad[i]),
                   Mul(a.Momen, a.g.arr[i]))]
      st == [i \in Idx(grad) |->
               Mul(Div(Neg(Sqrt(Add(a.s.arr[i], a.Smooth))),
                       Sqrt(Add(g[i], a.Smooth))),
                   grad[i])]
      s  == [i \in Idx(grad) |->
               Add(Mul(Mul(Sub(One, a.Momen), st[i]), st[i]),
                   Mul(a.Momen, a.s.arr[i]))]
  IN  [st   |-> [a EXCEPT !.g = WriteSlice(a.g, g), !.s = WriteSlice(a.s, s)],
       step |-> CopyVec(step, st)]

\* ---- Adagrad ----
AdagradInit(a, dim) ==
  LET g == resizeZero(a.g, dim)
  IN  IF IsPanic(g) THEN Panic
      ELSE [a EXCEPT !.Size = OrDefault(a.Size, R(1, 100)),
                     !.Smooth = OrDefault(a.Smooth, R(1, 100000000)),
                     !.g = g]

\* AdagradStep as the earlier revision of the file has it: step[i] *= ...
AdagradStepCompound(a, step, grad) ==
  LET g  == [i \in Idx(grad) |-> Add(a.g.arr[i], Mul(grad[i], grad[i]))]
      st == [i \in Idx(grad) |->
               Mul(step[i],
                   Div(Mul(Neg(a.Size), grad[i]), Sqrt(Add(g[i], a.Smooth))))]
  IN  [st   |-> [a EXCEPT !.g = WriteSlice(a.g, g)],
       step |-> CopyVec(step, st)]

AdagradStep(a, step, grad) ==
  LET g  == [i \in Idx(grad) |-> Add(a.g.arr[i], Mul(grad[i], grad[i]))]
      st == [i \in Idx(grad) |->
               Div(Mul(Neg(a.Size), grad[i]), Sqrt(Add(g[i], a.Smooth)))]
  IN  [st   |-> [a EXCEPT !.g = WriteSlice(a.g, g)],
       step |-> CopyVec(step, st)]

\* ---- Adam ----
AdamInit(a, dim) ==
  LET m  == resizeZero(a.m, dim)
      nu == resizeZero(a.nu, dim)
  IN  IF AnyPanic({m, nu}) THEN Panic
      ELSE [a EXCEPT !.Size = OrDefault(a.Size, R(1, 1000)),
                     !.MeanMomen = OrDefault(a.MeanMomen, R(9, 10)),
                     !.VarMomen = OrDefault(a.VarMomen, R(999, 1000)),
                     !.Smooth = OrDefault(a.Smooth, R(1, 100000000)),
                     !.time = 0, !.m = m, !.nu = nu]

AdamStep(a, step, grad) ==
  LET time == a.time + 1
      m  == [i \in Idx(grad) |->
               Add(Mul(a.MeanMomen, a.m.arr[i]),
                   Mul(Sub(One, a.MeanMomen), grad[i]))]
      nu == [i \in Idx(grad) |->
               Add(Mul(a.VarMomen, a.nu.arr[i]),
                   Mul(Mul(Sub(One, a.VarMomen), grad[i]), grad[i]))]
      mhat(i)  == Div(m[i], Sub(One, Pow(a.MeanMomen, time)))
      nuhat(i) == Div(nu[i], Sub(One, Pow(a.VarMomen, time)))
      st == [i \in Idx(grad) |->
               Mul(Div(Neg(a.Size), Add(Sqrt(nuhat(i)), a.Smooth)), mhat(i))]
  IN  [st   |-> [a EXCEPT !.time = time, !.m = WriteSlice(a.m, m),
                          !.nu = WriteSlice(a.nu, nu)],
       step |-> CopyVec(step, st)]

\* ---- Anneal ----
AnnealInit(a, dim) ==
  [a EXCEPT !.time = 0,
            !.size = OrDefault(a.Size, One),
            !.offset = OrDefault(a.Offset, One)]

\* AnnealStep with the time left as it is.
AnnealStepNoTime(a, step, grad) ==
  LET eta == Div(a.size, Add(a.offset, R(a.time, 1)))
  IN  [st   |-> a,
       step |-> ScaleVec(Neg(eta), CopyVec(step, grad))]

AnnealStep(a, step, grad) ==
  LET eta == Div(a.size, Add(a.offset, R(a.time, 1)))
  IN  [st   |-> [a EXCEPT !.time = a.time + 1],
       step |-> ScaleVec(Neg(eta), CopyVec(step, grad))]

\* ---- Momentum ----
MomentumInit(m, dim) ==
  LET nu == resizeZero(m.nu, dim)
  IN  IF IsPanic(nu) THEN Panic
      ELSE [m EXCEPT !.time = 0,
                     !.size = OrDefault(m.Size, One),
                     !.offset = OrDefault(m.Offset, One),
                     !.Momen = OrDefault(m.Momen, R(9, 10)),
                     !.nu = nu]

MomentumStep(m, step, grad) ==
  LET eta == Div(m.size, Add(m.offset, R(m.time, 1)))
      nu  == WriteSlice(m.nu, [i \in Idx(grad) |->
               Sub(Mul(m.Momen, m.nu.arr[i]), Mul(eta, grad[i]))])
  IN  [st   |-> [m EXCEPT !.nu = nu, !.time = m.time + 1],
       step |-> CopyVec(step, Elems(nu))]

\* ---- Nesterov ----
NesterovInit(n, dim) ==
  LET vPrev == resizeZero(n.vPrev, dim)
      v     == resizeZero(n.v, dim)
  IN  IF AnyPanic({vPrev, v}) THEN Panic
      ELSE [n EXCEPT !.Beta = OrDefault(n.Beta, R(1, 100)),
                     !.vPrev = vPrev, !.v = v, !.t = 0]

NesterovStep(n, step, grad) ==
  LET t     == n.t + 1
      mu    == Sub(One, Div(R(3, 1), R(t + 5, 1)))
      rate  == n.Beta
      vPrev == WriteSlice(n.vPrev, Elems(n.v))
      v     == [i \in Idx(grad) |->
                  Sub(Mul(mu, vPrev.arr[i]), Mul(rate, grad[i]))]
      st    == [i \in Idx(grad) |->
                  Add(Mul(Neg(mu), vPrev.arr[i]), Mul(Add(One, mu), v[i]))]
  IN  [st   |-> [n EXCEPT !.t = t, !.vPrev = vPrev, !.v = WriteSlice(n.v, v)],
       step |-> CopyVec(step, st)]

\* ---- RMSProp ----
RMSPropInit(r, dim) ==
  LET s == resizeZero(r.s, dim)
      g == resizeZero(r.g, dim)
  IN  IF AnyPanic({s, g}) THEN Panic
      ELSE [r EXCEPT !.Smooth = OrDefault(r.Smooth, R(1, 100000000)),
                     !.Momen = OrDefault(r.Momen, R(9, 10)),
                     !.Rate = OrDefault(r.Rate, R(1, 1000)),
                     !.s = s, !.g = g]

RMSPropStep(r, step, grad) ==
  LET g == [i \in Idx(grad) |->
              Add(Mul(r.Momen, r.g.arr[i]),
                  Mul(Mul(Sub(One, r.Momen), grad[i]), grad[i]))]
      s == WriteSlice(r.s, [i \in Idx(grad) |->
              Div(Mul(Neg(grad[i]), r.Rate), Sqrt(Add(g[i], r.Smooth)))])
  IN  [st   |-> [r EXCEPT !.g = WriteSlice(r.g, g), !.s = s],
       step |-> CopyVec(step, Elems(s))]

\* ---- the Stepper interface ----
Kinds == {"Adadelta", "Adagrad", "Adam", "Anneal", "Momentum", "Nesterov",
          "RMSProp"}

\* A stepper as a caller constructs it: only the exported fields set (every
\* one of them to h, for Anneal Size to h and Offset to o), the rest at its
\* zero value.
NewStepper(kind, h, o) ==
  CASE kind = "Adadelta" ->
         [kind |-> kind, Smooth |-> h, Momen |-> h, s |-> nilSlice,
          g |-> nilSlice]
    [] kind = "Adagrad" ->
         [kind |-> kind, Size |-> h, Smooth |-> h, g |-> nilSlice]
    [] kind = "Adam" ->
         [kind |-> kind, Size |-> h, MeanMomen |-> h, VarMomen |-> h,
          Smooth |-> h, time |-> 0, m |-> nilSlice, nu |-> nilSlice]
    [] kind = "Anneal" ->
         [kind |-> kind, Size |-> h, Offset |-> o, time |-> 0, size |-> Zero,
          offset |-> Zero]
    [] kind = "Momentum" ->
         [kind |-> kind, Size |-> h, Offset |-> o, Momen |-> h, time |-> 0,
          size |-> Zero, offset |-> Zero, nu |-> nilSlice]
    [] kind = "Nesterov" ->
         [kind |-> kind, Beta |-> h, vPrev |-> nilSlice, v |-> nilSlice,
          t |-> 0]
    [] kind = "RMSProp" ->
         [kind |-> kind, Smooth |-> h, Momen |-> h, Rate |-> h,
          s |-> nilSlice, g |-> nilSlice]

StepperInit(a, dim) ==
  CASE a.kind = "Adadelta" -> AdadeltaInit(a, dim)
    [] a.kind = "Adagrad"  -> AdagradInit(a, dim)
    [] a.kind = "Adam"     -> AdamInit(a, dim)
    [] a.kind = "Anneal"   -> AnnealInit(a, dim)
    [] a.kind = "Momentum" -> MomentumInit(a, dim)
    [] a.kind = "Nesterov" -> NesterovInit(a, dim)
    [] a.kind = "RMSProp"  -> RMSPropInit(a, dim)

StepperStep(a, step, grad) ==
  CASE a.kind = "Adadelta" -> AdadeltaStep(a, step, grad)
    [] a.kind = "Adagrad"  -> AdagradStep(a, step, grad)
    [] a.kind = "Adam"     -> AdamStep(a, step, grad)
    [] a.kind = "Anneal"   -> AnnealStep(a, step, grad)
    [] a.kind = "Momentum" -> MomentumStep(a, step, grad)
    [] a.kind = "Nesterov" -> NesterovStep(a, step, grad)
    [] a.kind = "RMSProp"  -> RMSPropStep(a, step, grad)

(***************************************************************************)
(* Bounds of the model.                                                    *)
(***************************************************************************)
\* Problem.Dim ranges over -1..MaxDim.
MaxDim == 2

\* Problem.Size (the dataset size) ranges over -1..MaxSize.
MaxSize == 2

\* RandomBatch.Size ranges over 0..MaxBatch.
MaxBatch == 2

\* Settings.Iterations ranges over -1..MaxIterations.
MaxIterations == 2

\* A run with no iteration limit is followed for MaxIter iterations.
MaxIter == 3

\* A stepper on its own is followed for MaxSteps Step calls in all.
MaxSteps == 3

(***************************************************************************)
(* State.                                                                  *)
(*   pc          where the call of SGD stands                              *)
(*   problem     the Problem: Dim, Size and the gradient rows G            *)
(*   settings    the *Settings argument (Nil or a record)                  *)
(*   set         SGD's local copy of the settings                          *)
(*   batcher     the RandomBatch                                           *)
(*   stepper     the Stepper                                               *)
(*   parameters, step, avgGrad, iter, status   SGD's locals                *)
(*   result      what SGD returned (Nil before it returns)                 *)
(*   calls       how often each collaborator has been called               *)
(*   hist        per Step call so far: the parameters at the call, the     *)
(*               gradient passed and the step written                      *)
(*   ref         for a stepper exercised on its own: a stepper newly       *)
(*               constructed at the last Init, and the calls since         *)
(***************************************************************************)
VARIABLES pc, problem, settings, set, batcher, stepper, parameters, step,
          avgGrad, iter, status, result, calls, hist, ref

vars == <<pc, problem, settings, set, batcher, stepper, parameters, step,
          avgGrad, iter, status, result, calls, hist, ref>>

Nil == [nil |-> TRUE]

IsNil(x) == "nil" \in DOMAIN x

\* optimize.Status
NotTerminated == "NotTerminated"

IterationLimit == "IterationLimit"

StepConvergence == "StepConvergence"

Failure == "Failure"

(***************************************************************************)
(* RandomBatch                                                             *)
(***************************************************************************)
NewRandomBatch(size, replacement) ==
  [Size |-> size, Replacement |-> replacement, nData |-> 0, idxs |-> << >>]

\* RandomBatch.Init: make([]int, r.Size) panics on a negative size.
RandomBatchInit(r, nSamples) ==
  IF r.Size < 0 THEN Panic
  ELSE [r EXCEPT !.nData = nSamples, !.idxs = [i \in 1..r.Size |-> 0]]

\* rand.Intn(n) panics unless n > 0; each position is drawn on its own.
WithReplacement(len, n) ==
  IF len = 0 THEN {<< >>}
  ELSE IF n <= 0 THEN {}
  ELSE [1..len -> 0..(n - 1)]

\* WithoutReplacement drawing every position on its own, as Batch did before
\* it took the Replacement field into account.
WithoutReplacementRepeats(len, n) ==
  IF len = 0 \/ len > n THEN {} ELSE [1..len -> 0..(n - 1)]

\* sampleuv.WithoutReplacement(idxs, n, src) panics on an empty idxs and when
\* len(idxs) > n; otherwise idxs holds distinct integers of [0, n).
WithoutReplacement(len, n) ==
  IF len = 0 \/ len > n THEN {}
  ELSE {b \in [1..len -> 0..(n - 1)] :
          \A i, j \in 1..len : i # j => b[i] # b[j]}

\* RandomBatch.Batch: the batches a call may return; none when it panics.
RandomBatchBatch(r) ==
  IF r.Replacement THEN WithReplacement(Len(r.idxs), r.nData)
                   ELSE WithoutReplacement(Len(r.idxs), r.nData)

(***************************************************************************)
(* SGD                                                                     *)
(***************************************************************************)
\* The zero value of Settings, used when settings is nil.
ZeroSettings == [Iterations |-> 0, StepTolerance |-> Zero]

\* defaultSettings taking every value that is not positive for an unset one.
defaultSettingsNonPositive(s) ==
  IF s.StepTolerance.n <= 0
    THEN [s EXCEPT !.StepTolerance = R(1, 100000000)]
    ELSE s

defaultSettings(s) ==
  IF IsZero(s.StepTolerance)
    THEN [s EXCEPT !.StepTolerance = R(1, 100000000)]
    ELSE s

\* The checks that make SGD panic before it calls anything.
PreconditionFails(p) == p.Dim = 0 \/ p.Size = 0

\* The exit test taking only a positive Iterations for a limit.
IterationLimitOnlyPositive(s, it) == s.Iterations > 0 /\ it > s.Iterations

\* The loop's exit test at the top of an iteration.
IterationLimitReached(s, it) == s.Iterations # 0 /\ it > s.Iterations

\* Problem.Grad: the gradient row of sample idx.  The problems considered
\* have a gradient that is zero everywhere (G = "zero") or that differs from
\* sample to sample and from coordinate to coordinate (G = "rows").
GradRow(p, idx) ==
  [j \in 1..p.Dim |-> IF p.G = "zero" THEN Zero ELSE R(idx + j, 1)]

RECURSIVE AddRows(_, _, _, _)
AddRows(acc0, p0, idxs0, i0) ==
  CHOOSE val \in {
      IF i > Len(idxs) THEN acc
      ELSE AddRows(AddVec(acc, GradRow(p, idxs[i])), p, idxs, i + 1)
    : acc \in {acc0}, p \in {p0}, idxs \in {idxs0}, i \in {i0}} : TRUE

\* AverageGrad on a buffer that is resliced and not zeroed.
AverageGradNoZero(avg, p, idxs) ==
  LET buf   == resizeNoZero(avg, p.Dim)
      nData == Len(idxs)
      sum   == AddRows(Elems(buf), p, idxs, 1)
  IN  WriteSlice(buf, ScaleVec(Div(One, R(nData, 1)), sum))

\* The averaged gradient of a batch, written into the buffer avg.
AverageGrad(avg, p, idxs) ==
  LET buf   == resizeZero(avg, p.Dim)
      nData == Len(idxs)
      sum   == AddRows(Elems(buf), p, idxs, 1)
  IN  WriteSlice(buf, ScaleVec(Div(One, R(nData, 1)), sum))

\* floats.Norm(step, 2) is NaN when an element is NaN, else +Inf when an
\* element is infinite.
NormIsNaN(v) == \E i \in 1..Len(v) : IsNaN(v[i])

NormIsInf(v) == ~NormIsNaN(v) /\ \E i \in 1..Len(v) : IsInf(v[i])

\* Diverged without the test for an infinite norm.
DivergedNaNOnly(v) == NormIsNaN(v)

\* math.IsNaN(stepNorm) || math.IsInf(stepNorm, 0)
Diverged(v) == NormIsNaN(v) \/ NormIsInf(v)

RECURSIVE SumSq(_, _)
SumSq(r0, i0) ==
  CHOOSE val \in {
     IF i > Len(r) THEN Zero ELSE Add(Mul(r[i], r[i]), SumSq(r, i + 1))
    : r \in {r0}, i \in {i0}} : TRUE

\* stepNorm < tol for a finite step: the possible outcomes.  The norm is not
\* negative, so the test fails for tol <= 0; for tol > 0 it is
\* sum_i (step[i]/tol)^2 < 1, which fails as soon as one |step[i]/tol| >= 1.
\* A step that is not a vector of rationals leaves the outcome open.
NormBelow(v, tol) ==
  IF tol.n <= 0 THEN {FALSE}
  ELSE LET r  == [i \in 1..Len(v) |-> Div(v[i], tol)]
           ss == SumSq(r, 1)
       IN  IF \E i \in 1..Len(v) : ~IsRat(r[i]) THEN BOOLEAN
           ELSE IF \E i \in 1..Len(v) : Abs(r[i].n) >= r[i].d THEN {FALSE}
           ELSE IF ~IsRat(ss) THEN BOOLEAN
           ELSE {ss.n < ss.d}

\* What a Stepper that is none of the seven may write: any vector.  Taken
\* here: all elements 0, 1e-9, 1e-8 or 1, or one element NaN or +Inf.
AnySteps(dim) ==
  {[j \in 1..dim |-> x] :
      x \in {Zero, R(1, 1000000000), R(1, 100000000), One}}
  \cup {[j \in 1..dim |-> IF j = dim THEN NaN ELSE One],
        [j \in 1..dim |-> IF j = 1 THEN Inf(1) ELSE One]}

NoCalls == [batcherInit |-> 0, stepperInit |-> 0, batch |-> 0, grad |-> 0,
            step |-> 0]

\* ---- the inputs of a run ----
AllSettings ==
  {Nil} \cup [Iterations : -1..MaxIterations,
              StepTolerance : {Zero, R(-1, 1), R(1, 1000000)}]

Inputs ==
  \* any stepper, every setting
  [problem  : [Dim : 1..MaxDim, Size : {1}, G : {"rows"}],
   batcher  : {NewRandomBatch(1, TRUE)},
   stepper  : {[kind |-> "Any"]},
   settings : AllSettings]
  \cup
  \* every dimension and dataset size
  [problem  : [Dim : -1..MaxDim, Size : -1..MaxSize, G : {"rows"}],
   batcher  : {NewRandomBatch(1, rep) : rep \in BOOLEAN},
   stepper  : {[kind |-> "Any"], NewStepper("Adagrad", Zero, Zero)},
   settings : {[Iterations |-> 1, StepTolerance |-> R(-1, 1)]}]
  \cup
  \* every batcher
  [problem  : [Dim : {1}, Size : 1..MaxSize, G : {"rows"}],
   batcher  : {NewRandomBatch(sz, rep) : sz \in 0..MaxBatch, rep \in BOOLEAN},
   stepper  : {NewStepper("Anneal", Zero, Zero)},
   settings : {[Iterations |-> 1, StepTolerance |-> R(-1, 1)]}]
  \cup
  \* every stepper with its default hyperparameters
  [problem  : [Dim : 1..MaxDim, Size : {MaxSize}, G : {"zero", "rows"}],
   batcher  : {NewRandomBatch(sz, TRUE) : sz \in 0..1},
   stepper  : {NewStepper(kind, Zero, Zero) : kind \in Kinds},
   settings : {Nil, [Iterations |-> 1, StepTolerance |-> Zero],
               [Iterations |-> 1, StepTolerance |-> R(-1, 1)]}]

Init ==
  \E in \in Inputs :
    /\ pc = "entry"
    /\ problem = in.problem
    /\ settings = in.settings
    /\ batcher = in.batcher
    /\ stepper = in.stepper
    /\ set = ZeroSettings
    /\ parameters = << >>
    /\ step = << >>
    /\ avgGrad = nilSlice
    /\ iter = 0
    /\ status = NotTerminated
    /\ result = Nil
    /\ calls = NoCalls
    /\ hist = << >>
    /\ ref = Nil

Count(what) == [calls EXCEPT ![what] = @ + 1]

\* SGD up to its first call: the settings are copied, the problem checked.
Entry ==
  /\ pc = "entry"
  /\ set' = IF IsNil(settings) THEN ZeroSettings ELSE settings
  /\ pc' = IF PreconditionFails(problem) THEN "panic" ELSE "batcherInit"
  /\ UNCHANGED <<problem, settings, batcher, stepper, parameters, step,
                 avgGrad, iter, status, result, calls, hist, ref>>

\* batcher.Init(size)
BatcherInit ==
  /\ pc = "batcherInit"
  /\ calls' = Count("batcherInit")
  /\ LET b == RandomBatchInit(batcher, problem.Size)
     IN  IF IsPanic(b) THEN pc' = "panic" /\ UNCHANGED batcher
                       ELSE pc' = "stepperInit" /\ batcher' = b
  /\ UNCHANGED <<problem, settings, set, stepper, parameters, step, avgGrad,
                 iter, status, result, hist, ref>>

\* stepper.Init(dim)
StepperInitCall ==
  /\ pc = "stepperInit"
  /\ calls' = Count("stepperInit")
  /\ LET a == IF stepper.kind = "Any" THEN stepper
              ELSE StepperInit(stepper, problem.Dim)
     IN  IF IsPanic(a) THEN pc' = "panic" /\ UNCHANGED stepper
                       ELSE pc' = "setup" /\ stepper' = a
  /\ UNCHANGED <<problem, settings, set, batcher, parameters, step, avgGrad,
                 iter, status, result, hist, ref>>

\* The defaults, and the parameter and step vectors.
Setup ==
  /\ pc = "setup"
  /\ set' = defaultSettings(set)
  /\ IF problem.Dim < 0
       THEN pc' = "panic" /\ UNCHANGED <<parameters, step>>
       ELSE /\ pc' = "loop"
            /\ parameters' = Zeros(problem.Dim)
            /\ step' = Zeros(problem.Dim)
  /\ UNCHANGED <<problem, settings, batcher, stepper, avgGrad, iter, status,
                 result, calls, hist, ref>>

\* LoopHead going on with the batch of the iteration before.
LoopHeadSkipsBatch ==
  /\ pc = "loop"
  /\ iter < MaxIter \/ iter <= set.Iterations + 1
  /\ IF IterationLimitReached(set, iter)
       THEN status' = IterationLimit /\ pc' = "return"
       ELSE pc' = (IF iter = 0 THEN "batch" ELSE "grad") /\ UNCHANGED status
  /\ UNCHANGED <<problem, settings, set, batcher, stepper, parameters, step,
                 avgGrad, iter, result, calls, hist, ref>>

\* The top of the loop.  A run is followed while iter < MaxIter, and up to
\* the iteration at which a positive limit ends it.
LoopHead ==
  /\ pc = "loop"
  /\ iter < MaxIter \/ iter <= set.Iterations + 1
  /\ IF IterationLimitReached(set, iter)
       THEN status' = IterationLimit /\ pc' = "return"
       ELSE pc' = "batch" /\ UNCHANGED status
  /\ UNCHANGED <<problem, settings, set, batcher, stepper, parameters, step,
                 avgGrad, iter, result, calls, hist, ref>>

\* batcher.Batch() returns a batch.
Batch ==
  /\ pc = "batch"
  /\ \E b \in RandomBatchBatch(batcher) : batcher' = [batcher EXCEPT !.idxs = b]
  /\ calls' = Count("batch")
  /\ pc' = "grad"
  /\ UNCHANGED <<problem, settings, set, stepper, parameters, step, avgGrad,
                 iter, status, result, hist, ref>>

\* batcher.Batch() panics.
BatchPanic ==
  /\ pc = "batch"
  /\ RandomBatchBatch(batcher) = {}
  /\ calls' = Count("batch")
  /\ pc' = "panic"
  /\ UNCHANGED <<problem, settings, set, batcher, stepper, parameters, step,
                 avgGrad, iter, status, result, hist, ref>>

\* problem.Func and problem.Grad on the batch, and the average of the rows.
Grad ==
  /\ pc = "grad"
  /\ calls' = Count("grad")
  /\ avgGrad' = AverageGrad(avgGrad, problem, batcher.idxs)
  /\ pc' = "step"
  /\ UNCHANGED <<problem, settings, set, batcher, stepper, parameters, step,
                 iter, status, result, hist, ref>>

\* stepper.Step(step, avgGrad)
Step ==
  /\ pc = "step"
  /\ calls' = Count("step")
  /\ IF stepper.kind = "Any"
       THEN /\ step' \in AnySteps(Len(step))
            /\ UNCHANGED stepper
       ELSE LET r == StepperStep(stepper, step, Elems(avgGrad))
            IN  stepper' = r.st /\ step' = r.step
  /\ hist' = Append(hist, [x |-> parameters, grad |-> Elems(avgGrad),
                            step |-> step'])
  /\ pc' = "check"
  /\ UNCHANGED <<problem, settings, set, batcher, parameters, avgGrad, iter,
                 status, result, ref>>

\* Check with the step added before the tests on its norm.
CheckAddsFirst ==
  /\ pc = "check"
  /\ parameters' = AddVec(parameters, step)
  /\ IF Diverged(step)
       THEN status' = Failure /\ pc' = "return" /\ UNCHANGED iter
       ELSE \E below \in NormBelow(step, set.StepTolerance) :
              IF below
                THEN status' = StepConvergence /\ pc' = "return"
                     /\ UNCHANGED iter
                ELSE iter' = iter + 1 /\ pc' = "loop" /\ UNCHANGED status
  /\ UNCHANGED <<problem, settings, set, batcher, stepper, step, avgGrad,
                 result, calls, hist, ref>>

\* Check with the step copied over the parameters where it is to be added.
CheckAssignsStep ==
  /\ pc = "check"
  /\ IF Diverged(step)
       THEN /\ status' = Failure
            /\ pc' = "return"
            /\ UNCHANGED <<parameters, iter>>
       ELSE \E below \in NormBelow(step, set.StepTolerance) :
              IF below
                THEN /\ status' = StepConvergence
                     /\ pc' = "return"
                     /\ UNCHANGED <<parameters, iter>>
                ELSE /\ parameters' = CopyVec(parameters, step)
                     /\ iter' = iter + 1
                     /\ pc' = "loop"
                     /\ UNCHANGED status
  /\ UNCHANGED <<problem, settings, set, batcher, stepper, step, avgGrad,
                 result, calls, hist, ref>>

\* The tests on the norm of the step, and the update.
Check ==
  /\ pc = "check"
  /\ IF Diverged(step)
       THEN /\ status' = Failure
            /\ pc' = "return"
            /\ UNCHANGED <<parameters, iter>>
       ELSE \E below \in NormBelow(step, set.StepTolerance) :
              IF below
                THEN /\ status' = StepConvergence
                     /\ pc' = "return"
                     /\ UNCHANGED <<parameters, iter>>
                ELSE /\ parameters' = AddVec(parameters, step)
                     /\ iter' = iter + 1
                     /\ pc' = "loop"
                     /\ UNCHANGED status
  /\ UNCHANGED <<problem, settings, set, batcher, stepper, step, avgGrad,
                 result, calls, hist, ref>>

\* return &Result{X: parameters, Status: status}, nil
Return ==
  /\ pc = "return"
  /\ result' = [X |-> parameters, Status |-> status]
  /\ pc' = "done"
  /\ UNCHANGED <<problem, settings, set, batcher, stepper, parameters, step,
                 avgGrad, iter, status, calls, hist, ref>>

Next ==
  \/ Entry
  \/ BatcherInit
  \/ StepperInitCall
  \/ Setup
  \/ LoopHead
  \/ Batch
  \/ BatchPanic
  \/ Grad
  \/ Step
  \/ Check
  \/ Return

Spec == Init /\ [][Next]_vars

\* SGD runs in one goroutine and never waits: while a step of it is possible,
\* one is taken.  Which batch, gradient or step a call produces is left open.
SpecLive == Spec /\ WF_vars(Next)

(***************************************************************************)
(* A stepper on its own: any sequence of Init and Step calls, on a stepper *)
(* with any of the hyperparameters below.  Beside it runs ref.st, a        *)
(* stepper newly constructed with the same exported fields at the last     *)
(* Init and given the same calls since.  ref.step is its step buffer,      *)
(* which starts as zeros, while the stepper's own starts with other        *)
(* contents.                                                               *)
(***************************************************************************)
StepperInputs ==
  {NewStepper(kind, hy[1], hy[2]) :
     kind \in Kinds, hy \in {<<Zero, Zero>>, <<R(1, 2), R(3, 1)>>}}

\* The fields of a stepper that are slices.
SliceFields(kind) ==
  CASE kind = "Adadelta" -> {"s", "g"}
    [] kind = "Adagrad"  -> {"g"}
    [] kind = "Adam"     -> {"m", "nu"}
    [] kind = "Anneal"   -> {}
    [] kind = "Momentum" -> {"nu"}
    [] kind = "Nesterov" -> {"vPrev", "v"}
    [] kind = "RMSProp"  -> {"s", "g"}

\* The fields of a stepper that count time.
TimeFields(kind) ==
  CASE kind \in {"Adam", "Anneal", "Momentum"} -> {"time"}
    [] kind = "Nesterov" -> {"t"}
    [] OTHER -> {}

\* A stepper newly constructed with the exported fields of a.
Fresh(a) ==
  [f \in DOMAIN a |->
     IF f \in SliceFields(a.kind) THEN nilSlice
     ELSE IF f \in TimeFields(a.kind) THEN 0
     ELSE IF f \in {"size", "offset"} THEN Zero
     ELSE a[f]]

\* What a stepper can read of itself: its scalars and the elements of its
\* slices (not what lies beyond their length in the backing arrays).
View(a) ==
  [f \in DOMAIN a |-> IF f \in SliceFields(a.kind) THEN Elems(a[f]) ELSE a[f]]

\* The gradients passed to a stepper on its own: all zero, all ones, or
\* 1, 2, ...
GradVecs(dim) ==
  {[j \in 1..dim |-> Zero], [j \in 1..dim |-> One],
   [j \in 1..dim |-> R(j, 1)]}

NoRef == [dim |-> 0, n |-> 0, total |-> 0]

InitStep ==
  /\ stepper \in StepperInputs
  /\ step = << >>
  /\ ref = NoRef
  /\ pc = "stepper"
  /\ problem = Nil
  /\ settings = Nil
  /\ set = ZeroSettings
  /\ batcher = Nil
  /\ parameters = << >>
  /\ avgGrad = nilSlice
  /\ iter = 0
  /\ status = NotTerminated
  /\ result = Nil
  /\ calls = NoCalls
  /\ hist = << >>

\* stepper.Init(d), after any earlier calls.
StInit ==
  /\ pc = "stepper"
  /\ \E d \in 1..MaxDim :
       /\ stepper' = StepperInit(stepper, d)
       /\ step' = [j \in 1..d |-> One]
       /\ ref' = [dim |-> d, n |-> 0, total |-> ref.total,
                  st |-> StepperInit(Fresh(stepper), d),
                  step |-> Zeros(d), grads |-> << >>]
  /\ UNCHANGED <<pc, problem, settings, set, batcher, parameters, avgGrad,
                 iter, status, result, calls, hist>>

\* stepper.Step(step, g)
StStep ==
  /\ pc = "stepper"
  /\ ref.dim > 0
  /\ ref.total < MaxSteps
  /\ \E g \in GradVecs(ref.dim) :
       LET r  == StepperStep(stepper, step, g)
           rr == StepperStep(ref.st, ref.step, g)
       IN  /\ stepper' = r.st
           /\ step' = r.step
           /\ ref' = [ref EXCEPT !.n = @ + 1, !.total = @ + 1, !.st = rr.st,
                                 !.step = rr.step, !.grads = Append(@, g)]
  /\ UNCHANGED <<pc, problem, settings, set, batcher, parameters, avgGrad,
                 iter, status, result, calls, hist>>

NextStep ==
  \/ StInit
  \/ StStep

SpecStep == InitStep /\ [][NextStep]_vars

(***************************************************************************)
(* Properties.                                                             *)
(***************************************************************************)
\* The last Step call: the parameters at the call, the gradient, the step.
Last == hist[Len(hist)]

AllZero(v) == \A i \in 1..Len(v) : IsZero(v[i])

\* The vector holds a NaN or an infinite element: its norm is NaN or infinite.
NotFinite(v) == \E i \in 1..Len(v) : v[i].k \in {"nan", "inf"}

\* The step neither fails the run nor converges: its norm is finite and not
\* below the tolerance.
StepContinues(v) == ~NotFinite(v) /\ NormBelow(v, set.StepTolerance) = {FALSE}

\* The sum of the steps of the first k Step calls, added in that order to
\* the zero vector.
RECURSIVE SumSteps(_)
SumSteps(k) ==
  IF k = 0 THEN Zeros(problem.Dim) ELSE AddVec(SumSteps(k - 1), hist[k].step)

Returning == pc \in {"return", "done"}

\* C1: with Settings.Iterations = n > 0 and steps that all have a finite norm
\* not below the tolerance, Stepper.Step is called at most n times, and the
\* run returns IterationLimit after exactly n Step calls and n updates.
C1_ExactlyNIterations ==
  (set.Iterations > 0 /\ \A i \in 1..Len(hist) : StepContinues(hist[i].step))
    => /\ calls.step <= set.Iterations
       /\ pc = "done" => /\ result.Status = IterationLimit
                         /\ calls.step = set.Iterations
                         /\ iter = set.Iterations

\* C2: once Step has written a step with a NaN or infinite norm, the run
\* returns Failure at that iteration, and the parameters (and Result.X) are
\* those the Step call started from: the step is never added.
C2_FailureKeepsParameters ==
  (Len(hist) > 0 /\ NotFinite(Last.step) /\ pc # "check")
    => /\ Returning
       /\ status = Failure
       /\ parameters = Last.x
       /\ calls.step = Len(hist)
       /\ pc = "done" => result = [X |-> Last.x, Status |-> Failure]

C2_Witness ==
  /\ pc = "done"
  /\ result.Status = Failure
  /\ Len(hist) >= 2
  /\ NormIsNaN(Last.step)
  /\ ~AllZero(result.X)

\* C3: a step whose norm is finite and below the tolerance ends the run with
\* StepConvergence at once and is not added; a run that ends with
\* StepConvergence ends at such a step, every earlier step had a finite norm
\* not below the tolerance, and the parameters (and Result.X) are the sum of
\* the earlier steps only.
C3_StepConvergence ==
  /\ (Len(hist) > 0 /\ ~NotFinite(Last.step) /\ pc # "check"
        /\ NormBelow(Last.step, set.StepTolerance) = {TRUE})
       => Returning /\ status = StepConvergence
  /\ status = StepConvergence
       => /\ Returning
          /\ Len(hist) > 0
          /\ ~NotFinite(Last.step)
          /\ TRUE \in NormBelow(Last.step, set.StepTolerance)
          /\ \A i \in 1..(Len(hist) - 1) :
                ~NotFinite(hist[i].step)
                /\ FALSE \in NormBelow(hist[i].step, set.StepTolerance)
          /\ parameters = SumSteps(Len(hist) - 1)
          /\ pc = "done" => result.X = SumSteps(Len(hist) - 1)

C3_Witness ==
  /\ pc = "done"
  /\ result.Status = StepConvergence
  /\ Len(hist) >= 2
  /\ ~AllZero(Last.step)
  /\ ~AllZero(result.X)

\* C4: the tolerance SGD uses is 1e-8 when the supplied StepTolerance is zero
\* or settings is nil, and the supplied value otherwise; with a negative
\* supplied value the status is never StepConvergence.
C4_EffectiveTolerance ==
  LET supplied == IF IsNil(settings) THEN Zero ELSE settings.StepTolerance
  IN  /\ pc \in {"loop", "batch", "grad", "step", "check", "return", "done"}
           => set.StepTolerance =
                IF IsZero(supplied) THEN R(1, 100000000) ELSE supplied
      /\ supplied.n < 0 => status # StepConvergence

C4_Witness ==
  /\ ~IsNil(settings)
  /\ settings.StepTolerance.n < 0
  /\ pc = "done"
  /\ Len(hist) >= 2
  /\ AllZero(hist[1].step)

\* C5: when Problem.Dim or Problem.Size is not positive, SGD fails before
\* anything is called: no Init, Batch, Grad or Step call, and no Result.
C5_NothingCalled ==
  (problem.Dim <= 0 \/ problem.Size <= 0)
    => /\ calls = NoCalls
       /\ result = Nil
       /\ pc \in {"entry", "panic"}

\* C6: with a RandomBatch without replacement whose Size exceeds the dataset
\* size (the problem being valid otherwise), no batch is ever returned, no
\* Result is returned, and when the failure is reported the stepper has not
\* been initialised or stepped and no parameter has been set up.
C6_NoPartialState ==
  (problem.Dim > 0 /\ problem.Size > 0 /\ ~batcher.Replacement
     /\ batcher.Size > problem.Size)
    => /\ pc \notin {"grad", "step", "check", "return", "done"}
       /\ result = Nil
       /\ pc = "panic" => /\ calls.stepperInit = 0
                          /\ calls.step = 0
                          /\ parameters = << >>

\* C7: a batch returned by RandomBatch.Batch after Init(N), for Size > 0, has
\* exactly Size indices, each in [0, N), and without replacement no index
\* twice.
C7_BatchIndices ==
  (calls.batch > 0 /\ pc # "panic" /\ batcher.Size > 0)
    => /\ Len(batcher.idxs) = batcher.Size
       /\ \A i \in 1..Len(batcher.idxs) :
             batcher.idxs[i] \in 0..(batcher.nData - 1)
       /\ batcher.nData = problem.Size
       /\ ~batcher.Replacement
             => \A i, j \in 1..Len(batcher.idxs) :
                  i # j => batcher.idxs[i] # batcher.idxs[j]

C7_Witness ==
  /\ pc = "grad"
  /\ calls.batch = 2
  /\ ~batcher.Replacement
  /\ batcher.Size = 2
  /\ batcher.idxs = <<1, 0>>

\* C8: after Init(d), whatever Init and Step calls came before, the stepper
\* is as a newly constructed one with the same hyperparameters after
\* Init(d): its buffers have length d and its time counter and buffers are
\* zero, and after the same Step calls both have written the same steps and
\* are in the same state.
C8_InitResets ==
  ref.dim > 0
    => /\ View(stepper) = View(ref.st)
       /\ ref.n >= 1 => step = ref.step
       /\ \A f \in SliceFields(stepper.kind) : stepper[f].len = ref.dim
       /\ ref.n = 0
            => /\ \A f \in SliceFields(stepper.kind) : AllZero(Elems(stepper[f]))
               /\ \A f \in TimeFields(stepper.kind) : stepper[f] = 0

C8_Witness ==
  /\ stepper.kind = "Adam"
  /\ ref.dim = 1
  /\ ref.total > ref.n
  /\ ref.n >= 2
  /\ Len(stepper.nu.arr) = 2
  /\ ~IsZero(stepper.nu.arr[2])
  /\ ~AllZero(step)

\* C9: every stepper with default hyperparameters writes the all-zero step
\* for an all-zero gradient, so SGD with the default tolerance on a problem
\* whose gradient is zero everywhere (and a batch that is not empty) makes
\* one Step call and returns StepConvergence with all-zero parameters.
C9_ZeroGradient ==
  stepper.kind \in Kinds
    => /\ \A i \in 1..Len(hist) :
             AllZero(hist[i].grad)
               => AllZero(hist[i].step) /\ Len(hist[i].step) = problem.Dim
       /\ (problem.G = "zero" /\ batcher.Size >= 1
             /\ (IsNil(settings) \/ (/\ IsZero(settings.StepTolerance)
                                     /\ settings.Iterations >= 0)))
            => /\ calls.step <= 1
               /\ pc = "done"
                    => /\ calls.step = 1
                       /\ result = [X |-> Zeros(problem.Dim),
                                    Status |-> StepConvergence]

C9_Witness ==
  /\ stepper.kind = "Adadelta"
  /\ problem.G = "zero"
  /\ problem.Dim = 2
  /\ pc = "done"
  /\ calls.step = 1
  /\ result = [X |-> Zeros(2), Status |-> StepConvergence]

\* C10: the Step call number t (from 0) after Init of an Anneal stepper with
\* scale a and offset b (1 for a field left at zero) writes -(a/(b+t))*g and
\* leaves the time at t+1; with a = b = 1 and the gradient [1,1] each time,
\* call t writes [-1/(1+t), -1/(1+t)].
C10_AnnealSteps ==
  (stepper.kind = "Anneal" /\ ref.dim > 0 /\ ref.n >= 1)
    => LET a == IF IsZero(stepper.Size) THEN One ELSE stepper.Size
           b == IF IsZero(stepper.Offset) THEN One ELSE stepper.Offset
           t == ref.n - 1
           g == ref.grads[ref.n]
       IN  /\ step = [j \in 1..ref.dim |->
                        R(-(a.n * b.d * g[j].n), a.d * (b.n + t * b.d) * g[j].d)]
           /\ stepper.time = ref.n
           /\ (a = One /\ b = One /\ ref.dim = 2
                 /\ \A i \in 1..ref.n : ref.grads[i] = <<One, One>>)
                => step = <<R(-1, ref.n), R(-1, ref.n)>>

C10_Witness ==
  /\ stepper.kind = "Anneal"
  /\ IsZero(stepper.Size)
  /\ IsZero(stepper.Offset)
  /\ ref.n = 3
  /\ ref.grads = <<(<<One, One>>), (<<One, One>>), (<<One, One>>)>>
  /\ step = <<R(-1, 3), R(-1, 3)>>

(***************************************************************************)
(* The step buffer.                                                        *)
(***************************************************************************)
\* Contents a step buffer of length dim may have before a Step call: zeros
\* (as SGD makes it), ones, or values that differ from place to place.
OutBuffers(dim) ==
  {Zeros(dim), [j \in 1..dim |-> One], [j \in 1..dim |-> R(0 - j, 3)]}

\* C11: what a Step call of any of the seven steppers leaves in the step
\* buffer depends on the stepper's state and the gradient only: called with
\* any other contents of the buffer, the same stepper writes the same step
\* for the same gradient.
C11_StepIgnoresBuffer ==
  [][ref'.total = ref.total + 1
       => \A b \in OutBuffers(ref.dim) :
             StepperStep(stepper, b, ref'.grads[Len(ref'.grads)]).step = step'
     ]_vars

C11_Witness ==
  /\ stepper.kind = "Adagrad"
  /\ ref.n >= 2
  /\ ref.grads[1] = [j \in 1..ref.dim |-> R(j, 1)]
  /\ ref.grads[2] = [j \in 1..ref.dim |-> One]
  /\ ~AllZero(step)
  /\ step # [j \in 1..ref.dim |-> One]

(***************************************************************************)
(* Termination.                                                            *)
(***************************************************************************)
\* Settings.Iterations as the caller supplied it (0 for nil settings).
SuppliedIterations == IF IsNil(settings) THEN 0 ELSE settings.Iterations

\* C12: with Settings.Iterations not 0, every run of SGD in which no call
\* panics returns, after at most Iterations + 1 iterations (none when
\* Iterations is negative); a returned Result carries the status the loop
\* ended with, which is IterationLimit, StepConvergence or Failure and never
\* NotTerminated; with Iterations = 0 a run returns only with StepConvergence
\* or Failure.
C12_Terminates ==
  /\ (SuppliedIterations # 0 => <>(pc \in {"done", "panic"}))
  /\ [](/\ SuppliedIterations > 0 => calls.batch <= SuppliedIterations + 1
        /\ SuppliedIterations < 0 => calls.batch = 0
        /\ Returning => status \in {IterationLimit, StepConvergence, Failure}
        /\ pc = "done" => result.Status = status
        /\ (Returning /\ SuppliedIterations = 0)
             => status \in {StepConvergence, Failure})

C12_Witness ==
  /\ pc = "done"
  /\ SuppliedIterations = MaxIterations
  /\ calls.step = MaxIterations + 1
  /\ result.Status = IterationLimit
  /\ \A i \in 1..Len(hist) : StepContinues(hist[i].step)

(***************************************************************************)
(* The averaged gradient.                                                  *)
(***************************************************************************)
\* The sum of coordinate j of the gradient rows of samples idxs[i..].
RECURSIVE SumCoord(_, _, _)
SumCoord(idxs, j, i) ==
  IF i > Len(idxs) THEN Zero
  ELSE Add(GradRow(problem, idxs[i])[j], SumCoord(idxs, j, i + 1))

\* The arithmetic mean of the gradient rows of the samples idxs.
MeanRows(idxs) ==
  [j \in 1..problem.Dim |-> Div(SumCoord(idxs, j, 1), R(Len(idxs), 1))]

\* C13: at every iteration the gradient passed to Stepper.Step has length
\* Dim and is the arithmetic mean of the gradient rows of the batch of that
\* iteration, with nothing left in it of the gradient of an earlier
\* iteration.
C13_MeanOfBatch ==
  /\ pc \in {"step", "check"}
       => /\ avgGrad.len = problem.Dim
          /\ Elems(avgGrad) = MeanRows(batcher.idxs)
  /\ pc = "check"
       => /\ Len(Last.grad) = problem.Dim
          /\ Last.grad = MeanRows(batcher.idxs)

C13_Witness ==
  /\ pc = "check"
  /\ calls.grad >= 2
  /\ Len(batcher.idxs) = 2
  /\ batcher.idxs[1] # batcher.idxs[2]
  /\ ~AllZero(hist[1].grad)
  /\ Last.grad # hist[1].grad

(***************************************************************************)
(* The order of the calls.                                                 *)
(***************************************************************************)
\* SGD is in or past its loop.
InLoop == pc \in {"loop", "batch", "grad", "step", "check", "return", "done"}

\* C14: batcher.Init(problem.Size) and stepper.Init(problem.Dim) are called
\* once each, the batcher's first, and both before the first Batch call;
\* iteration k (from 0) then calls Batch, Grad and Step once each in this
\* order, so that Step calls <= Grad calls <= Batch calls <= Step calls + 1
\* at every moment.
C14_CallOrder ==
  /\ calls.stepperInit <= calls.batcherInit
  /\ calls.batcherInit <= 1
  /\ (InLoop \/ calls.batch > 0)
       => /\ calls.batcherInit = 1
          /\ calls.stepperInit = 1
          /\ batcher.nData = problem.Size
  /\ calls.step <= calls.grad
  /\ calls.grad <= calls.batch
  /\ calls.batch <= calls.step + 1
  /\ pc \in {"loop", "batch"}
       => calls.batch = iter /\ calls.grad = iter /\ calls.step = iter
  /\ pc = "grad"
       => calls.batch = iter + 1 /\ calls.grad = iter /\ calls.step = iter
  /\ pc = "step"
       => calls.batch = iter + 1 /\ calls.grad = iter + 1 /\ calls.step = iter
  /\ pc = "check"
       => /\ calls.batch = iter + 1
          /\ calls.grad = iter + 1
          /\ calls.step = iter + 1
  /\ Returning => calls.batch = calls.step

C14_Witness ==
  /\ pc = "step"
  /\ iter = 2
  /\ calls = [batcherInit |-> 1, stepperInit |-> 1, batch |-> 3, grad |-> 3,
              step |-> 2]

(***************************************************************************)
(* The parameters.                                                         *)
(***************************************************************************)
\* How many of the steps written so far have been added to the parameters:
\* all of them, except the last one while it is being tested or when the
\* run ended at it.
Added ==
  IF pc = "check" \/ (Returning /\ status \in {StepConvergence, Failure})
    THEN Len(hist) - 1
    ELSE Len(hist)

\* C15: the parameters have length Dim and start as zeros; at every point of
\* the loop they are the sum of the steps of the earlier iterations, each of
\* which had a finite norm not below the tolerance; Grad and Step are called
\* with this sum, Result.X is this sum, and the parameters change only where
\* a step is added to them.
C15_RunningSum ==
  /\ [](InLoop
         => /\ Len(parameters) = problem.Dim
            /\ Len(hist) = calls.step
            /\ pc \in {"loop", "batch", "grad", "step"} => Len(hist) = iter
            /\ parameters = SumSteps(Added)
            /\ \A k \in 1..Added :
                  /\ ~NotFinite(hist[k].step)
                  /\ FALSE \in NormBelow(hist[k].step, set.StepTolerance)
            /\ \A k \in 1..Len(hist) : hist[k].x = SumSteps(k - 1)
            /\ pc = "done" => result.X = SumSteps(Added))
  /\ [][parameters' # parameters
         => \/ pc = "setup" /\ parameters' = Zeros(problem.Dim)
            \/ /\ pc = "check"
               /\ pc' = "loop"
               /\ parameters' = AddVec(parameters, step)]_vars

C15_Witness ==
  /\ pc = "done"
  /\ stepper.kind \in Kinds
  /\ result.Status = IterationLimit
  /\ Len(hist) = 2
  /\ ~AllZero(hist[1].step)
  /\ ~AllZero(hist[2].step)
  /\ result.X = AddVec(hist[1].step, hist[2].step)

====
